---- MODULE Spec2Model ----
(***************************************************************************)
(* Model of marvin/beta/assistants/formatting.py: format_step (with the    *)
(* tolerant decoding of function-call arguments), download_temp_file,      *)
(* format_message and format_run.                                          *)
(*                                                                         *)
(* Python strings that the code takes apart (the argument string of a      *)
(* function call) are sequences of one-character strings.  A panel body is *)
(* the sequence of the sections the templates lay out, each section a      *)
(* sequence of text fragments.  An Optional[str] is a sequence of length   *)
(* at most one (<<>> is None).  A call that can raise returns a record     *)
(* with a field "raised" ("none" when it returns normally).                *)
(***************************************************************************)
EXTENDS Integers, Sequences, FiniteSets, TLC

VARIABLES
    op,         \* the call in progress: "idle" or the name of the function called
    arg,        \* the argument of that call
    raised,     \* the exception that escaped the call, "none" if it returned
    ret,        \* the value the call returned
    argsLog,    \* format_step: the values bound to the local args, in order
    origin,     \* format_run: what each returned entry was formatted from
    io,         \* the network and filesystem operations of the call, in order
    tempFiles   \* the temporary files that exist (never deleted here)

vars == <<op, arg, raised, ret, argsLog, origin, io, tempFiles>>

(***************************************************************************)
(* Bounds of the model.                                                    *)
(***************************************************************************)
MaxArgLen == 3
MaxToolCalls == 2
MaxOutputs == 2
MaxTime == 3
MaxContent == 2
MaxFileIds == 1
MaxTempFiles == 3
MaxRunItems == 3

(***************************************************************************)
(* Program constants.                                                      *)
(***************************************************************************)
PanelWidth == 100
SecondsPerDay == 86400

SeqsUpTo(S, n) == UNION {[1..k -> S] : k \in 0..n}

\* strftime("%l:%M:%S %p") and strftime("%I:%M:%S %p"): the time of day only.
TimeOfDay(t) == t % SecondsPerDay

\* format_step: the hour padded with a space
StepTimestamp(t) == <<"%l:%M:%S %p", TimeOfDay(t)>>

\* format_message: the hour padded with a zero, which lstrip("0") removes
MessageTimestamp(t) == <<"%I:%M:%S %p", "lstrip 0", TimeOfDay(t)>>

(***************************************************************************)
(* json.loads on the characters the model draws argument strings from:     *)
(* arrays, the digit 1, the comma, the space, and a character that starts  *)
(* no JSON value.  A parsed value is held as the text Python's str() gives *)
(* for it (what {args} puts in the body).                                  *)
(***************************************************************************)
Chars == {"[", "]", ",", "1", " ", "x"}

RECURSIVE LStrip(_)
LStrip(s) == IF s /= <<>> /\ Head(s) = " " THEN LStrip(Tail(s)) ELSE s

RECURSIVE RStrip(_)
RStrip(s) ==
    IF s /= <<>> /\ s[Len(s)] = " " THEN RStrip(SubSeq(s, 1, Len(s) - 1)) ELSE s

Strip(s) == RStrip(LStrip(s))

RECURSIVE DigitRun(_)
DigitRun(s) == IF s /= <<>> /\ Head(s) = "1" THEN 1 + DigitRun(Tail(s)) ELSE 0

ParseFail == [ok |-> FALSE, val |-> <<>>, rest |-> <<>>]

\* str() of a list: the elements joined by ", " between brackets.
Join(acc, v) == IF acc = <<>> THEN v ELSE acc \o <<",", " ">> \o v
Arr(acc) == <<"[">> \o acc \o <<"]">>

\* the digits at the head of s are the number; the rest follows it
Number(s, n) ==
    [ok |-> TRUE, val |-> SubSeq(s, 1, n), rest |-> SubSeq(s, n + 1, Len(s))]

RECURSIVE StrictValue(_), StrictArray(_), StrictElems(_, _), StrictAfterValue(_, _),
          StrictAfterElement(_, _)

StrictValue(s) ==
    IF s = <<>> THEN ParseFail
    ELSE IF Head(s) = "1" THEN Number(s, DigitRun(s))
    ELSE IF Head(s) = "[" THEN StrictArray(LStrip(Tail(s)))
    ELSE ParseFail

\* t: the text after the opening bracket
StrictArray(t) ==
    IF t /= <<>> /\ Head(t) = "]"
    THEN [ok |-> TRUE, val |-> Arr(<<>>), rest |-> Tail(t)]
    ELSE StrictElems(t, <<>>)

\* the elements of an array from the text s on; acc holds those before
StrictElems(s, acc) == StrictAfterValue(StrictValue(s), acc)

\* after the element v: the text that follows it, and the elements so far
StrictAfterValue(v, acc) ==
    IF ~v.ok THEN ParseFail
    ELSE StrictAfterElement(LStrip(v.rest), Join(acc, v.val))

StrictAfterElement(t, a) ==
    IF t = <<>> THEN ParseFail
    ELSE IF Head(t) = "]" THEN [ok |-> TRUE, val |-> Arr(a), rest |-> Tail(t)]
    ELSE IF Head(t) = "," THEN StrictElems(LStrip(Tail(t)), a)
    ELSE ParseFail

\* the whole text must be one value: text after it is "Extra data"
StrictWhole(v) ==
    IF v.ok /\ LStrip(v.rest) = <<>>
    THEN [raised |-> "none", val |-> v.val]
    ELSE [raised |-> "JSONDecodeError", val |-> <<>>]

JsonLoads(s) == StrictWhole(StrictValue(LStrip(s)))

(***************************************************************************)
(* partialjson's JSONParser.parse: json.loads first, then a parse that     *)
(* accepts an array left open, a missing comma and trailing text; the      *)
(* empty string parses to {}.                                              *)
(***************************************************************************)
RECURSIVE ParseAny(_), ParseArray(_, _), ParseAfterElement(_, _), ParseAfterComma(_, _)
ParseAny(s) ==
    IF s = <<>> THEN ParseFail
    ELSE IF Head(s) = " " THEN ParseAny(Strip(s))
    ELSE IF Head(s) = "1" THEN Number(s, DigitRun(s))
    ELSE IF Head(s) = "[" THEN ParseArray(Strip(Tail(s)), <<>>)
    ELSE ParseFail

\* the elements of an array from the text s on; acc holds those before
ParseArray(s, acc) ==
    IF s = <<>> THEN [ok |-> TRUE, val |-> Arr(acc), rest |-> <<>>]
    ELSE IF Head(s) = "]" THEN [ok |-> TRUE, val |-> Arr(acc), rest |-> Tail(s)]
    ELSE ParseAfterElement(ParseAny(s), acc)

ParseAfterElement(r, acc) ==
    IF ~r.ok THEN ParseFail
    ELSE ParseAfterComma(Strip(r.rest), Join(acc, r.val))

\* a comma after the element is skipped when there is one
ParseAfterComma(t, a) ==
    IF t /= <<>> /\ Head(t) = "," THEN ParseArray(Strip(Tail(t)), a)
    ELSE ParseArray(t, a)

\* the value parse_any found, or the JSONDecodeError it raises again
ParsedOrRaised(r) ==
    IF r.ok
    THEN [raised |-> "none", val |-> r.val]
    ELSE [raised |-> "JSONDecodeError", val |-> <<>>]

PartialAfterStrict(s, strict) ==
    IF strict.raised = "none" THEN strict ELSE ParsedOrRaised(ParseAny(s))

PartialParse(s) ==
    IF s = <<>> THEN [raised |-> "none", val |-> <<"{", "}">>]
    ELSE PartialAfterStrict(s, JsonLoads(s))

JsonValue(text) == [kind |-> "json", text |-> text]
RawString(s) == [kind |-> "str", text |-> s]

(***************************************************************************)
(* format_step, lines 56-63: the decoding of a function call's arguments.  *)
(***************************************************************************)
\* AfterLenient without the inner except: a failure of the lenient parse escapes.
AfterLenientMutEscape(arguments, lenient) ==
    IF lenient.raised = "none"
    THEN [raised |-> "none", args |-> JsonValue(lenient.val)]
    ELSE [raised |-> lenient.raised, args |-> RawString(arguments)]

\* lines 60-63: the outcome of the lenient parse, any exception caught
AfterLenient(arguments, lenient) ==
    IF lenient.raised = "none"
    THEN [raised |-> "none", args |-> JsonValue(lenient.val)]
    ELSE [raised |-> "none", args |-> RawString(arguments)]

\* lines 57-59: the outcome of json.loads, JSONDecodeError caught
AfterStrict(arguments, strict) ==
    IF strict.raised = "none"
    THEN [raised |-> "none", args |-> JsonValue(strict.val)]
    ELSE IF strict.raised = "JSONDecodeError"
    THEN AfterLenient(arguments, PartialParse(arguments))
    ELSE [raised |-> strict.raised, args |-> RawString(<<>>)]

TolerantDecode(arguments) == AfterStrict(arguments, JsonLoads(arguments))

(***************************************************************************)
(* format_step.                                                            *)
(***************************************************************************)
\* bool() of an Optional[str].
Truthy(opt) == opt /= <<>> /\ opt[1] /= ""

RECURSIVE DropTrailingEmpty(_)
DropTrailingEmpty(content) ==
    IF content /= <<>> /\ content[Len(content)] = <<>>
    THEN DropTrailingEmpty(SubSeq(content, 1, Len(content) - 1))
    ELSE content

RECURSIVE DropLeadingEmpty(_)
DropLeadingEmpty(content) ==
    IF content /= <<>> /\ Head(content) = <<>>
    THEN DropLeadingEmpty(Tail(content))
    ELSE content

\* inspect.cleandoc: blank lines at the beginning and the end are removed.
Cleandoc(content) == DropLeadingEmpty(DropTrailingEmpty(content))

DefaultContent(step) ==
    << <<"Assistant is performing an action:", step.type, "- Status:", step.status>> >>

ResultFooter(result) == <<"Result:", "~~~python", result, "~~~">>

\* CodeInterpreterContent with the result footer laid out whether or not
\* there is an output.
CodeInterpreterContentMutAlways(tool_call) ==
    LET footer == IF tool_call.outputs /= <<>>
                  THEN ResultFooter(tool_call.outputs[1].logs)
                  ELSE ResultFooter("")
    IN << <<"Assistant is running the code interpreter...">>,
          <<"~~~python", tool_call.input, "~~~">>,
          footer >>

CodeInterpreterContent(tool_call) ==
    LET footer == IF tool_call.outputs /= <<>>
                  THEN ResultFooter(tool_call.outputs[1].logs)
                  ELSE <<>>
    IN << <<"Assistant is running the code interpreter...">>,
          <<"~~~python", tool_call.input, "~~~">>,
          footer >>

FunctionContent(tool_call, args) ==
    LET footer == IF Truthy(tool_call.output)
                  THEN ResultFooter(tool_call.output[1])
                  ELSE <<>>
    IN << <<"Assistant is using the", tool_call.name, "tool with arguments:">>,
          <<"~~~python">> \o args.text \o <<"~~~">>,
          footer >>

StepPanel(content, timestamp) ==
    [title |-> "System", subtitle |-> timestamp, body |-> Cleandoc(content),
     border_style |-> "gray74", width |-> PanelWidth]

\* AppendPanel keeping one panel for the whole step.
AppendPanelMutSingle(panels, panel) == <<panel>>

AppendPanel(panels, panel) == Append(panels, panel)

\* The loop of lines 31-104 from its i-th iteration on: content is the
\* local as the iterations before left it, log the values args was bound to.
RECURSIVE ToolCallLoop(_, _, _, _, _), EmitPanel(_, _, _, _, _), AfterDecode(_, _, _, _, _)
ToolCallLoop(step, i, content, panels, log) ==
    IF i > Len(step.tool_calls)
    THEN [raised |-> "none", panels |-> panels, args |-> log]
    ELSE IF step.tool_calls[i].type = "code_interpreter"
    THEN EmitPanel(step, i, CodeInterpreterContent(step.tool_calls[i]), panels, log)
    ELSE IF step.tool_calls[i].type = "function"
    THEN AfterDecode(step, i, TolerantDecode(step.tool_calls[i].arguments), panels, log)
    ELSE EmitPanel(step, i, content, panels, log)

\* lines 56-88: d is what the decoding of the arguments ended with
AfterDecode(step, i, d, panels, log) ==
    IF d.raised /= "none"
    THEN [raised |-> d.raised, panels |-> <<>>, args |-> log]
    ELSE EmitPanel(step, i, FunctionContent(step.tool_calls[i], d.args), panels,
                   Append(log, d.args))

\* lines 90-104: the panel of the iteration shows content, whatever set it
EmitPanel(step, i, content, panels, log) ==
    ToolCallLoop(step, i + 1, content,
                 AppendPanel(panels, StepPanel(content, StepTimestamp(step.created_at))),
                 log)

\* OtherStepPanels showing the default content for a step without tool calls.
OtherStepPanelsMutDefault(step) ==
    <<StepPanel(DefaultContent(step), StepTimestamp(step.created_at))>>

\* Lines 106-107 and the absent else: a step that is not of type tool_calls.
OtherStepPanels(step) == <<>>

\* None: what a call that raised leaves in place of its value
NoneValue == [cls |-> "NoneType"]

Group(panels) == [cls |-> "Group", renderables |-> panels]

\* line 109: the panels the loop ended with, as one Group
StepResult(r) == [raised |-> r.raised, ret |-> Group(r.panels), args |-> r.args]

FormatStep(step) ==
    IF step.type = "tool_calls"
    THEN StepResult(ToolCallLoop(step, 1, DefaultContent(step), <<>>, <<>>))
    ELSE [raised |-> "none", ret |-> Group(OtherStepPanels(step)), args |-> <<>>]

(***************************************************************************)
(* The steps format_step is called on.                                     *)
(***************************************************************************)
NoToolCallFields ==
    [input |-> "", outputs |-> <<>>, name |-> "", arguments |-> <<>>, output |-> <<>>]

CodeCall(input, outputs) ==
    [NoToolCallFields EXCEPT !.input = input, !.outputs = outputs]
    @@ [type |-> "code_interpreter"]

FunctionCall(name, arguments, output) ==
    [NoToolCallFields EXCEPT !.name = name, !.arguments = arguments, !.output = output]
    @@ [type |-> "function"]

RetrievalCall == NoToolCallFields @@ [type |-> "retrieval"]

Logs == {"log_a", "log_b"}
Outputs == SeqsUpTo([logs : Logs], MaxOutputs)
OptionalOutputs == {<<>>, <<"">>, <<"result">>}

\* valid JSON; valid JSON with whitespace; a truncated array; not JSON at all
ArgSamples == {<<"[", "1", "]">>, <<" ", "1">>, <<"[", "1">>, <<"x">>}
ArgStrings == SeqsUpTo(Chars, MaxArgLen)

CodeCalls == {CodeCall("print(1)", o) : o \in Outputs}
FunctionCalls(argStrings) ==
    {FunctionCall("get_weather", a, o) : a \in argStrings, o \in OptionalOutputs}
ToolCalls == CodeCalls \cup FunctionCalls(ArgSamples) \cup {RetrievalCall}

StepTypes == {"tool_calls", "message_creation", "expired_kind"}
Statuses == {"in_progress", "completed"}
Times == 1..MaxTime

RunStep(type, status, created_at, tool_calls) ==
    [type |-> type, status |-> status, created_at |-> created_at,
     tool_calls |-> tool_calls]

Steps ==
    {RunStep("tool_calls", s, t, tcs) :
        s \in Statuses, t \in Times, tcs \in SeqsUpTo(ToolCalls, MaxToolCalls)}
    \cup {RunStep(k, s, t, <<>>) :
        k \in StepTypes \ {"tool_calls"}, s \in Statuses, t \in Times}

DecodeSteps ==
    {RunStep("tool_calls", "completed", 1, <<tc>>) : tc \in FunctionCalls(ArgStrings)}

(***************************************************************************)
(* The state machine: a caller calls one of the functions, which runs to   *)
(* completion (the module is synchronous and single-threaded).             *)
(***************************************************************************)
Init ==
    /\ op = "idle"
    /\ arg = <<>>
    /\ raised = "none"
    /\ ret = <<>>
    /\ argsLog = <<>>
    /\ origin = <<>>
    /\ io = <<>>
    /\ tempFiles = {}

CallFormatStep(steps) ==
    /\ op = "idle"
    /\ \E step \in steps :
       \E r \in {FormatStep(step)} :
           /\ op' = "format_step"
           /\ arg' = step
           /\ raised' = r.raised
           /\ ret' = IF r.raised = "none" THEN r.ret ELSE NoneValue
           /\ argsLog' = r.args
    /\ UNCHANGED <<origin, io, tempFiles>>

FormatStepOnSteps == CallFormatStep(Steps)
FormatStepOnArguments == CallFormatStep(DecodeSteps)

SpecStep == Init /\ [][FormatStepOnSteps]_vars
SpecDecode == Init /\ [][FormatStepOnArguments]_vars

(***************************************************************************)
(* download_temp_file.  The environment decides how the n-th download of a *)
(* call ends: "ok", "download_error" (retrieve_content raises) or          *)
(* "write_error" (the write to the temporary file raises).                 *)
(***************************************************************************)
NoFailure == [failAt |-> 0, kind |-> "ok"]
Envs(downloads) ==
    {NoFailure} \cup
    {[failAt |-> n, kind |-> k] : n \in 1..downloads,
                                  k \in {"download_error", "write_error"}}
Outcome(env, n) == IF n = env.failAt THEN env.kind ELSE "ok"

\* f"{suffix}" of an Optional[str]
FormatSuffix(suffix) == IF suffix = <<>> THEN "None" ELSE suffix[1]

\* TempName with one fixed name: a later download overwrites the earlier file.
TempNameMutFixed(files, suffix) == "/tmp/tmp" \o ToString(1) \o FormatSuffix(suffix)

\* tempfile.NamedTemporaryFile: a name no existing file has, ending in the suffix.
TempName(files, suffix) ==
    "/tmp/tmp" \o ToString(Cardinality(files) + 1) \o FormatSuffix(suffix)

Event(ev, file_id, path, result) ==
    [ev |-> ev, file_id |-> file_id, path |-> path, result |-> result]

\* DownloadTempFile catching the failure of the download and returning no path.
DownloadTempFileMutSwallow(file_id, suffix, outcome, files) ==
    LET path == TempName(files, suffix)
    IN IF outcome = "download_error"
       THEN [raised |-> "none", path |-> "",
             io |-> <<Event("retrieve_content", file_id, "", "raised")>>,
             files |-> files]
       ELSE [raised |-> "none", path |-> path,
             io |-> <<Event("retrieve_content", file_id, "", "ok"),
                      Event("NamedTemporaryFile", file_id, path, "ok"),
                      Event("write", file_id, path, "ok")>>,
             files |-> files \cup {path}]

DownloadTempFile(file_id, suffix, outcome, files) ==
    LET path == TempName(files, suffix)
        retrieve(result) == Event("retrieve_content", file_id, "", result)
        create == Event("NamedTemporaryFile", file_id, path, "ok")
        write(result) == Event("write", file_id, path, result)
    IN IF outcome = "download_error"
       THEN [raised |-> "APIError", path |-> "", io |-> <<retrieve("raised")>>,
             files |-> files]
       ELSE IF outcome = "write_error"
       THEN [raised |-> "OSError", path |-> "",
             io |-> <<retrieve("ok"), create, write("raised")>>,
             files |-> files \cup {path}]
       ELSE [raised |-> "none", path |-> path,
             io |-> <<retrieve("ok"), create, write("ok")>>,
             files |-> files \cup {path}]

(***************************************************************************)
(* format_message.                                                         *)
(***************************************************************************)
RoleColor(role) ==
    IF role = "user" THEN "green" ELSE IF role = "assistant" THEN "blue" ELSE "red"

\* str.capitalize on the roles of the model
Capitalize(role) ==
    CASE role = "user" -> "User"
      [] role = "assistant" -> "Assistant"
      [] role = "moderator" -> "Moderator"

TextSection(item) == <<item.value>>
AttachmentSection(path) == <<"[bold]Attachment[/bold]:", "file://" \o path, path>>
AttachedFileSection(file_id) == <<"Attached file:", file_id>>

\* Lines 167-179 from the i-th content segment on; n downloads were made before.
RECURSIVE ContentLoop(_, _, _, _, _, _, _), AfterDownload(_, _, _, _, _, _, _)
ContentLoop(message, i, content, log, files, n, env) ==
    IF i > Len(message.content)
    THEN [raised |-> "none", content |-> content, io |-> log, files |-> files, n |-> n]
    ELSE IF message.content[i].type = "text"
    THEN ContentLoop(message, i + 1, Append(content, TextSection(message.content[i])),
                     log, files, n, env)
    ELSE IF message.content[i].type = "image_file"
    THEN AfterDownload(message, i, content, log,
                       DownloadTempFile(message.content[i].file_id, <<".png">>,
                                        Outcome(env, n + 1), files),
                       n + 1, env)
    ELSE ContentLoop(message, i + 1, content, log, files, n, env)

\* lines 173-179: d is what download_temp_file ended with
AfterDownload(message, i, content, log, d, n, env) ==
    IF d.raised /= "none"
    THEN [raised |-> d.raised, content |-> content, io |-> log \o d.io,
          files |-> d.files, n |-> n]
    ELSE ContentLoop(message, i + 1, Append(content, AttachmentSection(d.path)),
                     log \o d.io, d.files, n, env)

RECURSIVE AttachedFiles(_)
AttachedFiles(file_ids) ==
    IF file_ids = <<>> THEN <<>>
    ELSE <<AttachedFileSection(Head(file_ids))>> \o AttachedFiles(Tail(file_ids))

MessagePanel(message, content) ==
    [cls |-> "Panel", title |-> Capitalize(message.role),
     subtitle |-> MessageTimestamp(message.created_at), body |-> Cleandoc(content),
     border_style |-> RoleColor(message.role), width |-> PanelWidth]

\* lines 181-198: r is what the loop over the content segments ended with
MessageResult(message, r) ==
    IF r.raised /= "none"
    THEN [raised |-> r.raised, ret |-> NoneValue, io |-> r.io,
          files |-> r.files, n |-> r.n]
    ELSE [raised |-> "none",
          ret |-> MessagePanel(message, r.content \o AttachedFiles(message.file_ids)),
          io |-> r.io, files |-> r.files, n |-> r.n]

\* n: the downloads the call made before this message (format_run)
FormatMessage(message, files, n, env) ==
    MessageResult(message, ContentLoop(message, 1, <<>>, <<>>, files, n, env))

(***************************************************************************)
(* The messages format_message is called on.                               *)
(***************************************************************************)
TextItem(value) == [type |-> "text", value |-> value, file_id |-> ""]
ImageItem(file_id) == [type |-> "image_file", value |-> "", file_id |-> file_id]
OtherItem == [type |-> "image_url", value |-> "", file_id |-> ""]

ImageFileIds == {"file-a", "file-b"}
ContentItems == {TextItem("hello"), OtherItem} \cup {ImageItem(f) : f \in ImageFileIds}
Roles == {"user", "assistant", "moderator"}

Message(role, created_at, content, file_ids) ==
    [role |-> role, created_at |-> created_at, content |-> content,
     file_ids |-> file_ids]

Messages ==
    {Message(r, t, c, f) :
        r \in Roles, t \in Times, c \in SeqsUpTo(ContentItems, MaxContent),
        f \in SeqsUpTo({"file-c"}, MaxFileIds)}

ImageIndexes(message) ==
    {i \in 1..Len(message.content) : message.content[i].type = "image_file"}
ImageCount(message) == Cardinality(ImageIndexes(message))

CallFormatMessage ==
    /\ op = "idle"
    /\ \E message \in Messages :
        /\ Cardinality(tempFiles) + ImageCount(message) <= MaxTempFiles
        /\ \E env \in Envs(ImageCount(message)) :
           \E r \in {FormatMessage(message, tempFiles, 0, env)} :
               /\ op' = "format_message"
               /\ arg' = message
               /\ raised' = r.raised
               /\ ret' = r.ret
               /\ io' = r.io
               /\ tempFiles' = r.files
    /\ UNCHANGED <<argsLog, origin>>

\* The call is over: the caller has the panel or the exception; the
\* temporary files stay.
Return ==
    /\ op /= "idle"
    /\ op' = "idle"
    /\ arg' = <<>>
    /\ raised' = "none"
    /\ ret' = <<>>
    /\ argsLog' = <<>>
    /\ origin' = <<>>
    /\ io' = <<>>
    /\ UNCHANGED tempFiles

SpecMessage == Init /\ [][CallFormatMessage \/ Return]_vars

(***************************************************************************)
(* format_run.  Each pair holds the formatted object, the timestamp it is  *)
(* sorted by and, for the properties, the message or step it was made of.  *)
(***************************************************************************)
Pair(obj, created_at, kind, index) ==
    [obj |-> obj, created_at |-> created_at, origin |-> <<kind, index>>]

\* [(format_message(m), m.created_at) for m in run.messages], from the i-th on
RECURSIVE MessagePairs(_, _, _, _, _, _, _), AfterMessage(_, _, _, _, _, _)
MessagePairs(messages, i, pairs, log, files, n, env) ==
    IF i > Len(messages)
    THEN [raised |-> "none", pairs |-> pairs, io |-> log, files |-> files]
    ELSE AfterMessage(messages, i, pairs, log,
                      FormatMessage(messages[i], files, n, env), env)

\* r is what format_message ended with on the i-th message
AfterMessage(messages, i, pairs, log, r, env) ==
    IF r.raised /= "none"
    THEN [raised |-> r.raised, pairs |-> <<>>, io |-> log \o r.io, files |-> r.files]
    ELSE MessagePairs(messages, i + 1,
                      Append(pairs, Pair(r.ret, messages[i].created_at, "message", i)),
                      log \o r.io, r.files, r.n, env)

\* [(format_step(s), s.created_at) for s in run.steps], from the i-th on
RECURSIVE StepPairs(_, _, _), AfterStep(_, _, _, _)
StepPairs(steps, i, pairs) ==
    IF i > Len(steps)
    THEN [raised |-> "none", pairs |-> pairs]
    ELSE AfterStep(steps, i, pairs, FormatStep(steps[i]))

\* r is what format_step ended with on the i-th step
AfterStep(steps, i, pairs, r) ==
    IF r.raised /= "none"
    THEN [raised |-> r.raised, pairs |-> <<>>]
    ELSE StepPairs(steps, i + 1,
                   Append(pairs, Pair(r.ret, steps[i].created_at, "step", i)))

\* InsertSorted putting an entry before those of the same timestamp.
RECURSIVE InsertSortedMutTies(_, _)
InsertSortedMutTies(x, s) ==
    IF s = <<>> THEN <<x>>
    ELSE IF x.created_at <= Head(s).created_at THEN <<x>> \o s
    ELSE <<Head(s)>> \o InsertSortedMutTies(x, Tail(s))

\* Sorted leaving the pairs as collected.
SortedMutNoSort(pairs) == pairs

\* sorted(..., key=lambda x: x[1]): a stable sort by the timestamp
RECURSIVE InsertSorted(_, _)
InsertSorted(x, s) ==
    IF s = <<>> THEN <<x>>
    ELSE IF x.created_at < Head(s).created_at THEN <<x>> \o s
    ELSE <<Head(s)>> \o InsertSorted(x, Tail(s))

RECURSIVE Sorted(_)
Sorted(pairs) ==
    IF pairs = <<>> THEN <<>>
    ELSE InsertSorted(pairs[Len(pairs)], Sorted(SubSeq(pairs, 1, Len(pairs) - 1)))

\* x[0] is not None
IsNotNone(pair) == pair.obj.cls /= "NoneType"

\* lines 236-241: m and st are what the two comprehensions ended with
RunResult(m, st) ==
    IF m.raised /= "none"
    THEN [raised |-> m.raised, pairs |-> <<>>, io |-> m.io, files |-> m.files]
    ELSE IF st.raised /= "none"
    THEN [raised |-> st.raised, pairs |-> <<>>, io |-> m.io, files |-> m.files]
    ELSE [raised |-> "none",
          pairs |-> SelectSeq(Sorted(m.pairs \o st.pairs), IsNotNone),
          io |-> m.io, files |-> m.files]

FormatRun(run, files, env) ==
    RunResult(MessagePairs(run.messages, 1, <<>>, <<>>, files, 0, env),
              StepPairs(run.steps, 1, <<>>))

(***************************************************************************)
(* The runs format_run is called on.                                       *)
(***************************************************************************)
RunMessages ==
    {Message("user", t, c, <<>>) :
        t \in Times, c \in {<<TextItem("hello")>>, <<ImageItem("file-a")>>}}

RunSteps ==
    {RunStep("tool_calls", "completed", t, tcs) :
        t \in Times, tcs \in {<<>>, <<CodeCall("print(1)", <<>>)>>}}
    \cup {RunStep(k, "completed", t, <<>>) :
        k \in StepTypes \ {"tool_calls"}, t \in Times}

RunImageCount(run) ==
    Cardinality({i \in 1..Len(run.messages) : ImageCount(run.messages[i]) > 0})

CallFormatRun ==
    /\ op = "idle"
    /\ \E a \in 0..MaxRunItems :
       \E b \in 0..(MaxRunItems - a) :
       \E messages \in [1..a -> RunMessages] :
       \E steps \in [1..b -> RunSteps] :
       \E run \in {[messages |-> messages, steps |-> steps]} :
       \E env \in Envs(RunImageCount(run)) :
           /\ Cardinality(tempFiles) + RunImageCount(run) <= MaxTempFiles
           /\ \E r \in {FormatRun(run, tempFiles, env)} :
               /\ op' = "format_run"
               /\ arg' = run
               /\ raised' = r.raised
               /\ ret' = [i \in 1..Len(r.pairs) |-> r.pairs[i].obj]
               /\ origin' = [i \in 1..Len(r.pairs) |-> r.pairs[i].origin]
               /\ io' = r.io
               /\ tempFiles' = r.files
    /\ UNCHANGED argsLog

SpecRun == Init /\ [][CallFormatRun]_vars

\* Every function, one call after another.
Next == FormatStepOnSteps \/ CallFormatMessage \/ CallFormatRun \/ Return
Spec == Init /\ [][Next]_vars

(***************************************************************************)
(* Properties of format_step.                                              *)
(***************************************************************************)
StepReturned == op = "format_step" /\ raised = "none"
PanelsOfStep == ret.renderables
IsFunction(tool_call) == tool_call.type = "function"
Recognized(tool_call) == tool_call.type \in {"code_interpreter", "function"}
HasResultSection(body) ==
    \E k \in 1..Len(body) : body[k] /= <<>> /\ body[k][1] = "Result:"
ResultSectionShows(body, text) ==
    \E k \in 1..Len(body) : body[k] = <<"Result:", "~~~python", text, "~~~">>

\* C3: a step of kind tool_calls with n tool-call records gives exactly n
\* panels, one per record, each titled "System", the i-th panel holding the
\* body laid out for the i-th record (a code-execution or function call).
C3_OnePanelPerToolCall ==
    (op = "format_step" /\ arg.type = "tool_calls") =>
        /\ raised = "none"
        /\ ret.cls = "Group"
        /\ Len(PanelsOfStep) = Len(arg.tool_calls)
        /\ \A i \in 1..Len(arg.tool_calls) :
            LET tool_call == arg.tool_calls[i]
                panel == PanelsOfStep[i]
            IN /\ panel.title = "System"
               /\ tool_call.type = "code_interpreter" =>
                    panel.body = Cleandoc(CodeInterpreterContent(tool_call))
               /\ tool_call.type = "function" =>
                    /\ panel.body[1] =
                         <<"Assistant is using the", tool_call.name,
                           "tool with arguments:">>
                    /\ panel.body[2] =
                         <<"~~~python">>
                         \o TolerantDecode(tool_call.arguments).args.text
                         \o <<"~~~">>
                    /\ HasResultSection(panel.body) = Truthy(tool_call.output)

\* Two function calls with different arguments: two panels in input order.
C3_Witness ==
    /\ StepReturned
    /\ arg.type = "tool_calls"
    /\ Len(arg.tool_calls) = 2
    /\ arg.tool_calls[1].type = "function"
    /\ arg.tool_calls[2].type = "function"
    /\ arg.tool_calls[1].arguments = <<"[", "1">>
    /\ arg.tool_calls[2].arguments = <<"x">>
    /\ Len(PanelsOfStep) = 2
    /\ PanelsOfStep[1].body[2] = <<"~~~python", "[", "1", "]", "~~~">>
    /\ PanelsOfStep[2].body[2] = <<"~~~python", "x", "~~~">>

\* C4: a step whose kind is not tool_calls (message_creation or any other
\* kind) gives an empty sequence of panels, and no error is raised.
C4_NoPanelForOtherKinds ==
    (op = "format_step" /\ arg.type /= "tool_calls") =>
        /\ raised = "none"
        /\ ret.cls = "Group"
        /\ ret.renderables = <<>>

C4_Witness ==
    /\ StepReturned
    /\ arg.type = "expired_kind"
    /\ arg.status = "in_progress"
    /\ ret.renderables = <<>>

\* C8: the body of the panel of a code-execution or function call has a
\* "Result:" section exactly when the call has output (at least one captured
\* output, shown by the first output's log text; a non-empty output text of
\* a function call); without output the body is the introduction and the
\* code block of the input (or of the arguments) and nothing else.
C8_ResultSectionIffOutput ==
    (StepReturned /\ arg.type = "tool_calls") =>
        \A i \in 1..Len(arg.tool_calls) :
            LET tool_call == arg.tool_calls[i]
                body == PanelsOfStep[i].body
            IN /\ tool_call.type = "code_interpreter" =>
                    /\ body[2] = <<"~~~python", tool_call.input, "~~~">>
                    /\ HasResultSection(body) <=> tool_call.outputs /= <<>>
                    /\ tool_call.outputs /= <<>> =>
                         /\ ResultSectionShows(body, tool_call.outputs[1].logs)
                         /\ Len(body) = 3
                    /\ tool_call.outputs = <<>> => Len(body) = 2
               /\ tool_call.type = "function" =>
                    /\ body[1][2] = tool_call.name
                    /\ body[2][1] = "~~~python"
                    /\ HasResultSection(body) <=>
                         (tool_call.output /= <<>> /\ tool_call.output[1] /= "")
                    /\ HasResultSection(body) =>
                         /\ ResultSectionShows(body, tool_call.output[1])
                         /\ Len(body) = 3
                    /\ ~HasResultSection(body) => Len(body) = 2

\* A code-execution call without output next to one with two outputs.
C8_Witness ==
    /\ StepReturned
    /\ arg.type = "tool_calls"
    /\ Len(arg.tool_calls) = 2
    /\ arg.tool_calls[1] = CodeCall("print(1)", <<>>)
    /\ arg.tool_calls[2] = CodeCall("print(1)", <<[logs |-> "log_b"], [logs |-> "log_a"]>>)
    /\ ~HasResultSection(PanelsOfStep[1].body)
    /\ ResultSectionShows(PanelsOfStep[2].body, "log_b")

\* C10: in a tool_calls step the body of the panel of a record depends only
\* on that record and on the step's kind and status (it is the body the
\* record gets when it is the only record of the step), and the panel of a
\* record that is neither a code-execution nor a function call has the
\* default body "Assistant is performing an action: {kind} - Status: {status}".
C10_BodyOfOwnRecordOnly ==
    (StepReturned /\ arg.type = "tool_calls") =>
        \A i \in 1..Len(arg.tool_calls) :
            LET alone == [arg EXCEPT !.tool_calls = <<arg.tool_calls[i]>>]
            IN /\ PanelsOfStep[i].body = FormatStep(alone).ret.renderables[1].body
               /\ ~Recognized(arg.tool_calls[i]) =>
                    PanelsOfStep[i].body =
                        << <<"Assistant is performing an action:", arg.type,
                             "- Status:", arg.status>> >>

Indexes(seq) == [i \in 1..Len(seq) |-> i]

\* the image segments of a message, in content order
ImagesOf(message) ==
    LET IsImage(i) == message.content[i].type = "image_file"
    IN SelectSeq(Indexes(message.content), IsImage)

\* the segments that put a section in the body, in content order
ContributingOf(message) ==
    LET Contributes(i) == message.content[i].type \in {"text", "image_file"}
    IN SelectSeq(Indexes(message.content), Contributes)

IsRetrieve(event) == event.ev = "retrieve_content"
Retrieves(log) == SelectSeq(log, IsRetrieve)
PngNames == {"/tmp/tmp" \o ToString(n) \o ".png" : n \in 1..MaxTempFiles}

\* C6: when the download for an image segment fails, format_message raises
\* the failure and returns no panel; the failed download is the last
\* operation of the call, and the downloads the call started are those of
\* the image segments up to the failing one, each started once.
C6_DownloadFailurePropagates ==
    (op = "format_message"
        /\ \E k \in 1..Len(io) : IsRetrieve(io[k]) /\ io[k].result = "raised") =>
        LET images == ImagesOf(arg)
            started == Retrieves(io)
        IN /\ raised = "APIError"
           /\ ret = NoneValue
           /\ IsRetrieve(io[Len(io)]) /\ io[Len(io)].result = "raised"
           /\ \A k \in 1..(Len(io) - 1) : io[k].result = "ok"
           /\ Len(started) <= Len(images)
           /\ \A r \in 1..Len(started) :
                started[r].file_id = arg.content[images[r]].file_id

\* The first of two image segments fails to download: the second is not started.
C6_Witness ==
    /\ op = "format_message"
    /\ arg.content = <<ImageItem("file-a"), ImageItem("file-b")>>
    /\ Len(io) = 1
    /\ io[1].ev = "retrieve_content"
    /\ io[1].file_id = "file-a"
    /\ io[1].result = "raised"
    /\ raised = "APIError"
    /\ ret = NoneValue

\* C7: a call of format_message on a message with k image segments in which
\* every download succeeds creates exactly k temporary files, each with the
\* suffix .png, one per image segment, downloaded one after another in the
\* order of the segments (text segments, segments of another type and the
\* attached file ids create none), and the body holds the link to each
\* file's path at the position of its segment.
C7_OneTempFilePerImage ==
    [][(op' = "format_message" /\ raised' = "none") =>
        LET message == arg'
            images == ImagesOf(message)
            contributing == ContributingOf(message)
            k == Len(images)
            created == tempFiles' \ tempFiles
            body == ret'.body
            PathOf(r) == io'[3 * r - 1].path
            Rank(i) == Cardinality({j \in 1..i : message.content[j].type = "image_file"})
        IN /\ tempFiles \subseteq tempFiles'
           /\ Cardinality(created) = k
           /\ created \subseteq PngNames
           /\ Len(io') = 3 * k
           /\ \A r \in 1..k :
                /\ io'[3 * r - 2].ev = "retrieve_content"
                /\ io'[3 * r - 2].file_id = message.content[images[r]].file_id
                /\ io'[3 * r - 1].ev = "NamedTemporaryFile"
                /\ io'[3 * r].ev = "write"
                /\ io'[3 * r].path = PathOf(r)
                /\ PathOf(r) \in created
           /\ Len(body) = Len(contributing) + Len(message.file_ids)
           /\ \A j \in 1..Len(contributing) :
                LET item == message.content[contributing[j]]
                IN IF item.type = "image_file"
                   THEN body[j] = <<"[bold]Attachment[/bold]:",
                                    "file://" \o PathOf(Rank(contributing[j])),
                                    PathOf(Rank(contributing[j]))>>
                   ELSE body[j] = <<item.value>>
           /\ \A j \in 1..Len(message.file_ids) :
                body[Len(contributing) + j] = <<"Attached file:", message.file_ids[j]>>
      ]_vars

\* Two image segments downloaded while an earlier temporary file exists.
C7_Witness ==
    /\ op = "format_message"
    /\ raised = "none"
    /\ arg.content = <<ImageItem("file-b"), ImageItem("file-a")>>
    /\ arg.file_ids = <<"file-c">>
    /\ tempFiles = {"/tmp/tmp1.png", "/tmp/tmp2.png", "/tmp/tmp3.png"}
    /\ Len(io) = 6
    /\ io[2].path = "/tmp/tmp2.png"
    /\ io[5].path = "/tmp/tmp3.png"
    /\ ret.body[1][3] = "/tmp/tmp2.png"
    /\ ret.body[2][3] = "/tmp/tmp3.png"

(***************************************************************************)
(* Properties of format_run.                                               *)
(***************************************************************************)
RunReturned == op = "format_run" /\ raised = "none"

\* the message or step an entry of the result was formatted from
SourceOf(o) == IF o[1] = "message" THEN arg.messages[o[2]] ELSE arg.steps[o[2]]

\* the place of the source in the list format_run collects
CollectedAt(o) == IF o[1] = "message" THEN o[2] ELSE Len(arg.messages) + o[2]

\* each entry is what its source formats to
EntriesMatchSources ==
    /\ Len(origin) = Len(ret)
    /\ \A i \in 1..Len(ret) :
        IF origin[i][1] = "message"
        THEN /\ ret[i].cls = "Panel"
             /\ ret[i].subtitle = MessageTimestamp(SourceOf(origin[i]).created_at)
        ELSE ret[i] = FormatStep(SourceOf(origin[i])).ret

\* C1: whatever the order of run.messages and run.steps, the entries
\* format_run returns are in non-decreasing order of the creation timestamp
\* of the message or step each was formatted from.
C1_RunSortedByCreatedAt ==
    RunReturned =>
        /\ EntriesMatchSources
        /\ \A i \in 1..(Len(ret) - 1) :
            SourceOf(origin[i]).created_at <= SourceOf(origin[i + 1]).created_at

\* Messages at 3 and 1, a one-panel step at 2: the order is 1, 2, 3.
C1_Witness ==
    /\ RunReturned
    /\ Len(arg.messages) = 2
    /\ arg.messages[1].created_at = 3
    /\ arg.messages[2].created_at = 1
    /\ Len(arg.steps) = 1
    /\ arg.steps[1].created_at = 2
    /\ arg.steps[1].tool_calls /= <<>>
    /\ origin = << <<"message", 2>>, <<"step", 1>>, <<"message", 1>> >>

\* C2: a step that produces no panel (message_creation, another kind, or
\* tool_calls without records) contributes no entry to the result of
\* format_run: every entry holds at least one panel.
C2_EmptyStepsDropped ==
    RunReturned =>
        /\ \A i \in 1..Len(ret) :
            ret[i].cls = "Group" => ret[i].renderables /= <<>>
        /\ \A j \in 1..Len(arg.steps) :
            FormatStep(arg.steps[j]).ret.renderables = <<>> =>
                \A i \in 1..Len(origin) : origin[i] /= <<"step", j>>

\* C9: entries whose sources have the same creation timestamp are returned
\* in the order they were collected: messages in run.messages order, steps
\* in run.steps order, every message before every step.
C9_TiesInCollectionOrder ==
    RunReturned =>
        \A i \in 1..Len(ret) : \A j \in 1..Len(ret) :
            (i < j /\ SourceOf(origin[i]).created_at = SourceOf(origin[j]).created_at)
                => CollectedAt(origin[i]) < CollectedAt(origin[j])

\* Two messages and a step, all of the same timestamp.
C9_Witness ==
    /\ RunReturned
    /\ Len(arg.messages) = 2
    /\ Len(arg.steps) = 1
    /\ arg.messages[1].created_at = 2
    /\ arg.messages[2].created_at = 2
    /\ arg.steps[1].created_at = 2
    /\ arg.messages[1] /= arg.messages[2]
    /\ origin = << <<"message", 1>>, <<"message", 2>>, <<"step", 1>> >>

====
